---- MODULE Spec2Model ----
(***************************************************************************)
(* Tetrus: the playfield (board.py), the piece geometry and the seven-bag  *)
(* randomizer (tetromino.py), the game engine (game.py) and the best-score *)
(* file (highscore.py).                                                    *)
(*                                                                         *)
(* Python's None is written None ("None") for cells and kinds, NoPiece for *)
(* an absent Tetromino.  Python lists are 0-based, TLA+ sequences 1-based: *)
(* grid[y][x] of the source is grid[y + 1][x + 1] here, and rotation state *)
(* r of a kind is TETROMINO_SHAPES[kind][r + 1].                           *)
(***************************************************************************)
EXTENDS Integers, Sequences, FiniteSets, TLC

VARIABLES
    board,      \* Board: [width, visible_height, hidden_rows, total_height, grid]
    ret,        \* what the last Board call returned (or that it raised)
    bag,        \* SevenBagGenerator._bag
    block,      \* the kinds drawn in the current block of seven draws
    block_len,  \* the number of draws in the current block of seven
    draws,      \* the number of next_kind calls made
    game,       \* the Game object's fields and the outcome that ended run()
    pc,         \* where run() stands: "top" (line 192), "input" (line 197),
                \* "pause_screen" (line 268) or "lock_delay" (line 226)
    paused,     \* run()'s local `paused`
    soft_drop_active,   \* run()'s local `soft_drop_active`
    held_since_lock,    \* history: a hold has taken effect since the last lock
    piece_budget,       \* how many kinds the generator may be asked for
    score_file,         \* what is stored at HighScoreTracker.path
    tracker             \* the HighScoreTracker object (or that __init__ raised)

boardVars == <<board, ret>>
bagVars == <<bag, block, block_len, draws>>
gameVars == <<game, pc, paused, soft_drop_active, held_since_lock, piece_budget>>
scoreVars == <<score_file, tracker>>
vars == <<board, ret, bag, block, block_len, draws, game, pc, paused, soft_drop_active,
          held_since_lock, piece_budget, score_file, tracker>>

None == "None"

----------------------------------------------------------------------------
(* constants.py *)

TETROMINO_GLYPH == "[]"
HIDDEN_ROWS == 2

(* Durations are counted in units of 10 ms: 0.8 s, 0.5 s and the 0.05 s floor
   of the gravity interval.  GRAVITY_LEVEL_STEP = 0.9 is 9/10 and
   SOFT_DROP_MULTIPLIER = 0.05 is 1/20. *)
GRAVITY_START_SECONDS == 80
LOCK_DELAY_SECONDS == 50
GRAVITY_FLOOR == 5
GRAVITY_LEVEL_STEP_NUM == 9
GRAVITY_LEVEL_STEP_DEN == 10
SOFT_DROP_DIVISOR == 20

----------------------------------------------------------------------------
(* tetromino.py: shapes and piece states *)

TETROMINO_SHAPES ==
    [ I |-> << << <<0,0>>, <<1,0>>, <<2,0>>, <<3,0>> >>,
                << <<0,0>>, <<0,1>>, <<0,2>>, <<0,3>> >>,
                << <<0,0>>, <<1,0>>, <<2,0>>, <<3,0>> >>,
                << <<0,0>>, <<0,1>>, <<0,2>>, <<0,3>> >> >>,
      J |-> << << <<0,0>>, <<0,1>>, <<1,1>>, <<2,1>> >>,
                << <<0,0>>, <<1,0>>, <<0,1>>, <<0,2>> >>,
                << <<0,0>>, <<1,0>>, <<2,0>>, <<2,1>> >>,
                << <<1,0>>, <<1,1>>, <<0,2>>, <<1,2>> >> >>,
      L |-> << << <<2,0>>, <<0,1>>, <<1,1>>, <<2,1>> >>,
                << <<0,0>>, <<0,1>>, <<0,2>>, <<1,2>> >>,
                << <<0,0>>, <<1,0>>, <<2,0>>, <<0,1>> >>,
                << <<0,0>>, <<1,0>>, <<1,1>>, <<1,2>> >> >>,
      O |-> << << <<0,0>>, <<1,0>>, <<0,1>>, <<1,1>> >>,
                << <<0,0>>, <<1,0>>, <<0,1>>, <<1,1>> >>,
                << <<0,0>>, <<1,0>>, <<0,1>>, <<1,1>> >>,
                << <<0,0>>, <<1,0>>, <<0,1>>, <<1,1>> >> >>,
      S |-> << << <<1,0>>, <<2,0>>, <<0,1>>, <<1,1>> >>,
                << <<0,0>>, <<0,1>>, <<1,1>>, <<1,2>> >>,
                << <<1,0>>, <<2,0>>, <<0,1>>, <<1,1>> >>,
                << <<0,0>>, <<0,1>>, <<1,1>>, <<1,2>> >> >>,
      T |-> << << <<1,0>>, <<0,1>>, <<1,1>>, <<2,1>> >>,
                << <<0,0>>, <<0,1>>, <<1,1>>, <<0,2>> >>,
                << <<0,0>>, <<1,0>>, <<2,0>>, <<1,1>> >>,
                << <<1,0>>, <<0,1>>, <<1,1>>, <<1,2>> >> >>,
      Z |-> << << <<0,0>>, <<1,0>>, <<1,1>>, <<2,1>> >>,
                << <<1,0>>, <<0,1>>, <<1,1>>, <<0,2>> >>,
                << <<0,0>>, <<1,0>>, <<1,1>>, <<2,1>> >>,
                << <<1,0>>, <<0,1>>, <<1,1>>, <<0,2>> >> >> ]

ALL_TETROMINO_TYPES == <<"I", "J", "L", "O", "S", "T", "Z">>

Kinds == {ALL_TETROMINO_TYPES[i] : i \in 1..Len(ALL_TETROMINO_TYPES)}

Tetromino(kind, rotation, x, y) ==
    [kind |-> kind, rotation |-> rotation, x |-> x, y |-> y]

NoPiece == Tetromino(None, 0, 0, 0)

cells(p) ==
    LET offsets == TETROMINO_SHAPES[p.kind][p.rotation + 1]
    IN  [i \in 1..Len(offsets) |-> <<p.x + offsets[i][1], p.y + offsets[i][2]>>]

moved(p, dx, dy) == Tetromino(p.kind, p.rotation, p.x + dx, p.y + dy)

(* the direction ignored: every turn is clockwise *)
rotated_ignores_direction(p, clockwise) ==
    LET rotation_count == Len(TETROMINO_SHAPES[p.kind])
        delta == 1
    IN  Tetromino(p.kind, (p.rotation + delta) % rotation_count, p.x, p.y)

rotated(p, clockwise) ==
    LET rotation_count == Len(TETROMINO_SHAPES[p.kind])
        delta == IF clockwise THEN 1 ELSE -1
    IN  Tetromino(p.kind, (p.rotation + delta) % rotation_count, p.x, p.y)

Min(S) == CHOOSE m \in S : \A n \in S : m <= n
Max(S) == CHOOSE m \in S : \A n \in S : m >= n

(* the division rounded up instead of down *)
spawn_tetromino_rounds_up(kind, board_width) ==
    LET rotation == 0
        offsets == TETROMINO_SHAPES[kind][rotation + 1]
        min_x == Min({offsets[i][1] : i \in 1..Len(offsets)})
        max_x == Max({offsets[i][1] : i \in 1..Len(offsets)})
        piece_width == max_x - min_x + 1
        spawn_x == ((board_width - piece_width + 1) \div 2) - min_x
    IN  Tetromino(kind, rotation, spawn_x, 0)

spawn_tetromino(kind, board_width) ==
    LET rotation == 0
        offsets == TETROMINO_SHAPES[kind][rotation + 1]
        min_x == Min({offsets[i][1] : i \in 1..Len(offsets)})
        max_x == Max({offsets[i][1] : i \in 1..Len(offsets)})
        piece_width == max_x - min_x + 1
        spawn_x == ((board_width - piece_width) \div 2) - min_x
    IN  Tetromino(kind, rotation, spawn_x, 0)

----------------------------------------------------------------------------
(* tetromino.py: SevenBagGenerator *)

Range(seq) == {seq[i] : i \in 1..Len(seq)}

RECURSIVE Orderings(_)
Orderings(S) ==
    IF S = {} THEN {<<>>}
    ELSE UNION { { <<k>> \o rest : rest \in Orderings(S \ {k}) } : k \in S }

(* rng.shuffle(list(ALL_TETROMINO_TYPES)): any ordering of the seven kinds *)
ShuffleOutcomes == Orderings(Range(ALL_TETROMINO_TYPES))

(* _refill that puts every kind into the bag twice *)
refill_every_kind_twice(shuffled) ==
    [i \in 1..(2 * Len(shuffled)) |-> shuffled[(i + 1) \div 2]]

refill(shuffled) == shuffled

(* next_kind that reads the last kind of the bag and leaves it there *)
next_kind_without_pop(b, shuffled) ==
    LET filled == IF b = <<>> THEN refill(shuffled) ELSE b
    IN  [kind |-> filled[Len(filled)], bag |-> filled]

(* next_kind on bag b, `shuffled` being what the shuffle yields if it refills *)
next_kind(b, shuffled) ==
    LET filled == IF b = <<>> THEN refill(shuffled) ELSE b
    IN  [kind |-> filled[Len(filled)], bag |-> SubSeq(filled, 1, Len(filled) - 1)]

(* one step of the pieces(board_width) generator *)
pieces(b, shuffled, board_width) ==
    LET n == next_kind(b, shuffled)
    IN  [piece |-> spawn_tetromino(n.kind, board_width), bag |-> n.bag]

----------------------------------------------------------------------------
(* board.py *)

empty_row(width) == [x \in 1..width |-> None]

Board(width, height, hidden_rows) ==
    [width |-> width, visible_height |-> height, hidden_rows |-> hidden_rows,
     total_height |-> height + hidden_rows,
     grid |-> [y \in 1..(height + hidden_rows) |-> empty_row(width)]]

is_inside(b, x, y) == 0 <= x /\ x < b.width /\ 0 <= y /\ y < b.total_height

RECURSIVE can_place_loop(_, _, _)
can_place_loop(b, cs, i) ==
    IF i > Len(cs) THEN TRUE
    ELSE IF ~is_inside(b, cs[i][1], cs[i][2]) THEN FALSE
    ELSE IF b.grid[cs[i][2] + 1][cs[i][1] + 1] # None THEN FALSE
    ELSE can_place_loop(b, cs, i + 1)

(* can_place without the occupancy test: bounds only *)
can_place_bounds_only(b, p) ==
    \A i \in 1..Len(cells(p)) : is_inside(b, cells(p)[i][1], cells(p)[i][2])

can_place(b, p) == can_place_loop(b, cells(p), 1)

(* lock_piece writes the cells in order and raises at the first cell that is
   outside the board: the cells before it stay written. *)
RECURSIVE lock_piece_loop(_, _, _, _)
lock_piece_loop(b, cs, i, glyph) ==
    IF i > Len(cs) THEN [board |-> b, raised |-> FALSE]
    ELSE IF ~is_inside(b, cs[i][1], cs[i][2]) THEN [board |-> b, raised |-> TRUE]
    ELSE lock_piece_loop(
            [b EXCEPT !.grid[cs[i][2] + 1][cs[i][1] + 1] = glyph], cs, i + 1, glyph)

(* lock_piece that writes the piece one row lower than it stands *)
lock_piece_row_below(b, p) ==
    lock_piece_loop(b, cells(moved(p, 0, 1)), 1, TETROMINO_GLYPH)

lock_piece(b, p) == lock_piece_loop(b, cells(p), 1, TETROMINO_GLYPH)

line_full(row) == \A x \in 1..Len(row) : row[x] # None

RECURSIVE clear_scan(_, _, _, _)
clear_scan(grid, y, cleared, new_grid) ==
    IF y > Len(grid) THEN [cleared |-> cleared, new_grid |-> new_grid]
    ELSE IF line_full(grid[y]) THEN clear_scan(grid, y + 1, cleared + 1, new_grid)
    ELSE clear_scan(grid, y + 1, cleared, Append(new_grid, grid[y]))

(* the table with "== 4" for its last row *)
score_table_exactly_four(cleared) ==
    IF cleared = 1 THEN 40
    ELSE IF cleared = 2 THEN 100
    ELSE IF cleared = 3 THEN 300
    ELSE IF cleared = 4 THEN 1200
    ELSE 0

score_table(cleared) ==
    IF cleared = 1 THEN 40
    ELSE IF cleared = 2 THEN 100
    ELSE IF cleared = 3 THEN 300
    ELSE IF cleared >= 4 THEN 1200
    ELSE 0

(* new_grid[-total_height:] *)
last_rows(rows, n) ==
    IF Len(rows) <= n THEN rows ELSE SubSeq(rows, Len(rows) - n + 1, Len(rows))

(* the empty rows appended at the bottom instead of inserted at the top *)
clear_completed_lines_pad_bottom(b) ==
    LET scan == clear_scan(b.grid, 1, 0, <<>>)
        padded == scan.new_grid \o [i \in 1..scan.cleared |-> empty_row(b.width)]
    IN  [board |-> [b EXCEPT !.grid = last_rows(padded, b.total_height)],
         cleared |-> scan.cleared,
         score_gain |-> score_table(scan.cleared)]

clear_completed_lines(b) ==
    LET scan == clear_scan(b.grid, 1, 0, <<>>)
        padded == [i \in 1..scan.cleared |-> empty_row(b.width)] \o scan.new_grid
    IN  [board |-> [b EXCEPT !.grid = last_rows(padded, b.total_height)],
         cleared |-> scan.cleared,
         score_gain |-> score_table(scan.cleared)]

RECURSIVE drop_distance_loop(_, _, _)
drop_distance_loop(b, test_piece, distance) ==
    LET trial == moved(test_piece, 0, 1)
    IN  IF ~can_place(b, trial) THEN distance
        ELSE drop_distance_loop(b, trial, distance + 1)

(* the distance counted before the trial is tested *)
drop_distance_counts_failed_step(b, p) == drop_distance_loop(b, p, 0) + 1

drop_distance(b, p) == drop_distance_loop(b, p, 0)

hard_drop(b, p) == moved(p, 0, drop_distance(b, p))


----------------------------------------------------------------------------
(* game.py: the Game engine.

   A session s is the Game object: its board, its bag (and the number of
   kinds drawn from it), its fields, and `outcome`, the exception that ended
   run() ("running" while none has).  Optional values are sets of at most one
   element ({} is None), except pieces (NoPiece) and kinds (None).

   The engine reads time.monotonic() only to subtract a stored timestamp from
   it, so the session holds the three differences instead of the timestamps:
     gravity_age = time.monotonic() - _last_gravity_time
     lock_age    = time.monotonic() - _lock_timer_started (when armed)
     elapsed     = time.monotonic() - _run_started
   Storing "now" is setting the age to 0; time passing adds to every age.
   An age stops growing at the largest threshold it is compared with. *)

GameMode(sprint_target_lines, time_limit_seconds) ==
    [sprint_target_lines |-> sprint_target_lines,
     time_limit_seconds |-> time_limit_seconds]

GameStats(score, level, total_lines) ==
    [score |-> score, level |-> level, total_lines |-> total_lines]

RECURSIVE Pow(_, _)
Pow(a, n) == IF n = 0 THEN 1 ELSE a * Pow(a, n - 1)

(* max(0.05, GRAVITY_START_SECONDS * GRAVITY_LEVEL_STEP ** (level - 1)), as
   the fraction num / den *)
update_gravity_interval(level) ==
    LET num == GRAVITY_START_SECONDS * Pow(GRAVITY_LEVEL_STEP_NUM, level - 1)
        den == Pow(GRAVITY_LEVEL_STEP_DEN, level - 1)
    IN  IF num < GRAVITY_FLOOR * den THEN [num |-> GRAVITY_FLOOR, den |-> 1]
        ELSE [num |-> num, den |-> den]

(* Game.__init__ followed by the start of run(): board.reset(),
   _update_gravity_interval(), _run_started = now *)
NewGame(mode, stats, b) ==
    [board |-> b, bag |-> <<>>, draws |-> 0,
     mode |-> mode, stats |-> stats,
     current_piece |-> NoPiece, next_piece |-> NoPiece,
     held_kind |-> None, hold_used |-> FALSE,
     lock_age |-> {},
     gravity_interval |-> update_gravity_interval(stats.level),
     gravity_age |-> 0, elapsed |-> 0,
     outcome |-> "running"]

Marathon == GameMode({}, {})

GameFields ==
    {"mode", "stats", "current_piece", "next_piece", "held_kind", "hold_used",
     "lock_age", "gravity_interval", "gravity_age", "elapsed", "outcome"}

(* next(self._piece_iter) *)
next_piece_of(s, shuffled) ==
    LET n == pieces(s.bag, shuffled, s.board.width)
    IN  [s EXCEPT !.bag = n.bag, !.draws = s.draws + 1, !.next_piece = n.piece]

spawn_next_piece(s, shuffled) ==
    LET s1 == IF s.next_piece = NoPiece THEN next_piece_of(s, shuffled) ELSE s
        s2 == [next_piece_of(s1, shuffled) EXCEPT
                  !.current_piece = s1.next_piece, !.hold_used = FALSE]
    IN  IF ~can_place(s2.board, s2.current_piece)
        THEN [s2 EXCEPT !.outcome = "GameOver"]
        ELSE s2

(* the score multiplied by the level before this clear *)
lock_current_piece_old_level(s) ==
    LET locked == lock_piece(s.board, s.current_piece)
        result == clear_completed_lines(locked.board)
        total_lines == s.stats.total_lines + result.cleared
        level == 1 + (total_lines \div 10)
        score == s.stats.score + result.score_gain * s.stats.level
        s1 == [s EXCEPT !.board = result.board]
        s2 == IF result.cleared # 0
              THEN [s1 EXCEPT !.stats = GameStats(score, level, total_lines),
                              !.gravity_interval = update_gravity_interval(level)]
              ELSE s1
    IN  IF locked.raised
        THEN [s EXCEPT !.board = locked.board, !.outcome = "ValueError"]
        ELSE IF /\ result.cleared # 0
                /\ \E target \in s.mode.sprint_target_lines : total_lines >= target
        THEN [s2 EXCEPT !.outcome = "ModeComplete"]
        ELSE [s2 EXCEPT !.lock_age = {}, !.current_piece = NoPiece]

lock_current_piece(s) ==
    LET locked == lock_piece(s.board, s.current_piece)
        result == clear_completed_lines(locked.board)
        total_lines == s.stats.total_lines + result.cleared
        level == 1 + (total_lines \div 10)
        score == s.stats.score + result.score_gain * level
        s1 == [s EXCEPT !.board = result.board]
        s2 == IF result.cleared # 0
              THEN [s1 EXCEPT !.stats = GameStats(score, level, total_lines),
                              !.gravity_interval = update_gravity_interval(level)]
              ELSE s1
    IN  IF locked.raised
        THEN [s EXCEPT !.board = locked.board, !.outcome = "ValueError"]
        ELSE IF /\ result.cleared # 0
                /\ \E target \in s.mode.sprint_target_lines : total_lines >= target
        THEN [s2 EXCEPT !.outcome = "ModeComplete"]
        ELSE [s2 EXCEPT !.lock_age = {}, !.current_piece = NoPiece]

(* the lock-delay timer cleared whether or not the piece moved *)
move_piece_always_clears_timer(s, dx, dy) ==
    LET moved_piece == moved(s.current_piece, dx, dy)
    IN  IF can_place(s.board, moved_piece)
        THEN [session |-> [s EXCEPT !.current_piece = moved_piece,
                                    !.gravity_age = IF dy > 0 THEN 0 ELSE @,
                                    !.lock_age = {}],
              ok |-> TRUE]
        ELSE [session |-> [s EXCEPT !.lock_age = {}], ok |-> FALSE]

(* _move_piece that moves the piece without asking can_place *)
move_piece_without_test(s, dx, dy) ==
    [session |-> [s EXCEPT !.current_piece = moved(s.current_piece, dx, dy),
                           !.gravity_age = IF dy > 0 THEN 0 ELSE @,
                           !.lock_age = {}],
     ok |-> TRUE]

(* returns the session and the bool _move_piece returns *)
move_piece(s, dx, dy) ==
    LET moved_piece == moved(s.current_piece, dx, dy)
    IN  IF can_place(s.board, moved_piece)
        THEN [session |-> [s EXCEPT !.current_piece = moved_piece,
                                    !.gravity_age = IF dy > 0 THEN 0 ELSE @,
                                    !.lock_age = {}],
              ok |-> TRUE]
        ELSE [session |-> s, ok |-> FALSE]

RECURSIVE rotate_kicks(_, _, _, _)
rotate_kicks(s, rotated_piece, kicks, i) ==
    IF i > Len(kicks) THEN s
    ELSE LET candidate == moved(rotated_piece, kicks[i], 0)
         IN  IF can_place(s.board, candidate)
             THEN [s EXCEPT !.current_piece = candidate, !.lock_age = {}]
             ELSE rotate_kicks(s, rotated_piece, kicks, i + 1)

(* the kick to the left tried before the rotation in place *)
rotate_piece_left_first(s, clockwise) ==
    rotate_kicks(s, rotated(s.current_piece, clockwise), <<-1, 0, 1, -2, 2>>, 1)

(* _rotate_piece that leaves the lock-delay timer as it was *)
rotate_piece_keeps_timer(s, clockwise) ==
    [rotate_kicks(s, rotated(s.current_piece, clockwise), <<0, -1, 1, -2, 2>>, 1)
        EXCEPT !.lock_age = s.lock_age]

rotate_piece(s, clockwise) ==
    rotate_kicks(s, rotated(s.current_piece, clockwise), <<0, -1, 1, -2, 2>>, 1)

(* the kinds swapped before the replacement is tested *)
hold_piece_swaps_before_test(s, shuffled) ==
    LET swap_kind == s.current_piece.kind
        replacement == spawn_tetromino(s.held_kind, s.board.width)
    IN  IF s.hold_used THEN s
        ELSE IF s.held_kind = None
        THEN spawn_next_piece(
                [s EXCEPT !.held_kind = swap_kind, !.current_piece = NoPiece,
                          !.hold_used = TRUE], shuffled)
        ELSE IF ~can_place(s.board, replacement)
        THEN [s EXCEPT !.held_kind = swap_kind, !.outcome = "GameOver"]
        ELSE [s EXCEPT !.held_kind = swap_kind, !.current_piece = replacement,
                       !.lock_age = {}, !.hold_used = TRUE]

hold_piece(s, shuffled) ==
    LET swap_kind == s.current_piece.kind
        replacement == spawn_tetromino(s.held_kind, s.board.width)
    IN  IF s.hold_used THEN s
        ELSE IF s.held_kind = None
        THEN spawn_next_piece(
                [s EXCEPT !.held_kind = swap_kind, !.current_piece = NoPiece,
                          !.hold_used = TRUE], shuffled)
        ELSE IF ~can_place(s.board, replacement)
        THEN [s EXCEPT !.outcome = "GameOver"]
        ELSE [s EXCEPT !.held_kind = swap_kind, !.current_piece = replacement,
                       !.lock_age = {}, !.hold_used = TRUE]

(* the timer restarted whether or not it is armed *)
maybe_start_lock_timer_restarts(s) == [s EXCEPT !.lock_age = {0}]

maybe_start_lock_timer(s) ==
    IF s.lock_age = {} THEN [s EXCEPT !.lock_age = {0}] ELSE s

(* hard drop scored like soft drop, one point per row *)
process_hard_drop_one_point(s, shuffled) ==
    LET distance == drop_distance(s.board, s.current_piece)
        s1 == [s EXCEPT !.current_piece = moved(s.current_piece, 0, distance),
                        !.stats.score = @ + distance]
        s2 == lock_current_piece(s1)
    IN  IF s2.outcome # "running" THEN s2 ELSE spawn_next_piece(s2, shuffled)

(* the hard_drop branch of _process_action *)
process_hard_drop(s, shuffled) ==
    LET distance == drop_distance(s.board, s.current_piece)
        s1 == [s EXCEPT !.current_piece = moved(s.current_piece, 0, distance),
                        !.stats.score = @ + distance * 2]
        s2 == lock_current_piece(s1)
    IN  IF s2.outcome # "running" THEN s2 ELSE spawn_next_piece(s2, shuffled)

(* the point awarded whether or not the piece moved *)
process_soft_drop_always_scores(s) ==
    LET m == move_piece(s, 0, 1)
        s1 == IF ~m.ok THEN maybe_start_lock_timer(m.session) ELSE m.session
    IN  [s1 EXCEPT !.stats.score = @ + 1]

(* the soft_drop branch of _process_action *)
process_soft_drop(s) ==
    LET m == move_piece(s, 0, 1)
    IN  IF ~m.ok THEN maybe_start_lock_timer(m.session)
        ELSE [m.session EXCEPT !.stats.score = @ + 1]

Actions ==
    {"move_left", "move_right", "rotate_cw", "rotate_ccw", "soft_drop",
     "hard_drop", "hold", "pause", "quit"}

process_action(s, action, shuffled) ==
    CASE action = "move_left" -> move_piece(s, -1, 0).session
      [] action = "move_right" -> move_piece(s, 1, 0).session
      [] action = "rotate_cw" -> rotate_piece(s, TRUE)
      [] action = "rotate_ccw" -> rotate_piece(s, FALSE)
      [] action = "soft_drop" -> process_soft_drop(s)
      [] action = "hard_drop" -> process_hard_drop(s, shuffled)
      [] action = "hold" -> hold_piece(s, shuffled)
      [] action = "quit" -> [s EXCEPT !.outcome = "GameQuit"]
      [] OTHER -> s

apply_gravity(s, soft_drop) ==
    LET den == IF soft_drop THEN s.gravity_interval.den * SOFT_DROP_DIVISOR
               ELSE s.gravity_interval.den
        m == move_piece(s, 0, 1)
        s1 == IF ~m.ok THEN maybe_start_lock_timer(m.session) ELSE m.session
    IN  IF s.gravity_age * den < s.gravity_interval.num THEN s
        ELSE [s1 EXCEPT !.gravity_age = 0]

handle_lock_delay(s) ==
    IF s.lock_age = {} \/ s.current_piece = NoPiece THEN s
    ELSE IF \E age \in s.lock_age : age >= LOCK_DELAY_SECONDS
    THEN lock_current_piece(s)
    ELSE s

(* the limit tested with > instead of >= *)
check_time_limit_strict(s) ==
    IF \E limit \in s.mode.time_limit_seconds : s.elapsed > limit
    THEN [s EXCEPT !.outcome = "ModeComplete"]
    ELSE s

(* line 249: the time limit, tested after gravity, lock delay and drawing *)
check_time_limit(s) ==
    IF \E limit \in s.mode.time_limit_seconds : s.elapsed >= limit
    THEN [s EXCEPT !.outcome = "ModeComplete"]
    ELSE s

(* time.sleep, or the wait of _show_pause_screen: d units of time pass *)
ElapsedCap(s) == IF s.mode.time_limit_seconds = {} THEN 0
                 ELSE Max(s.mode.time_limit_seconds)

AddCapped(age, d, cap) == IF age + d > cap THEN cap ELSE age + d

(* a clock that stands still: no timer grows *)
time_passes_stands_still(s, d) == s

time_passes(s, d) ==
    [s EXCEPT !.gravity_age = AddCapped(@, d, GRAVITY_START_SECONDS),
              !.lock_age = {AddCapped(age, d, LOCK_DELAY_SECONDS) : age \in @},
              !.elapsed = AddCapped(@, d, ElapsedCap(s))]

----------------------------------------------------------------------------
(* The Board on its own: a board of one of a few shapes, built up by any
   sequence of lock_piece and clear_completed_lines calls. *)

BoardShapes == { <<4, 2, 0>>, <<2, 4, 1>> }

Margin == 1

PieceStates(b) ==
    { Tetromino(k, r, x, y) :
        k \in Kinds, r \in 0..3,
        x \in (0 - Margin)..(b.width - 1 + Margin),
        y \in (0 - Margin)..(b.total_height - 1 + Margin) }

NoRet == [op |-> "none", cleared |-> 0, score_gain |-> 0, raised |-> FALSE]

BagIdle == bag = <<>> /\ block = {} /\ block_len = 0 /\ draws = 0

(* no file at the path, no HighScoreTracker constructed *)
NoFile == [state |-> "missing", text |-> <<>>, writable |-> TRUE, dir_writable |-> TRUE]

NoTracker == [state |-> "none", best_score |-> 0, raised |-> None]

ScoreIdle == score_file = NoFile /\ tracker = NoTracker

GameIdle ==
    /\ game = [f \in GameFields |-> NewGame(Marathon, GameStats(0, 1, 0), Board(1, 1, 0))[f]]
    /\ pc = "idle" /\ paused = FALSE /\ soft_drop_active = FALSE
    /\ held_since_lock = FALSE /\ piece_budget = 0

BoardInit ==
    /\ \E s \in BoardShapes : board = Board(s[1], s[2], s[3])
    /\ ret = NoRet
    /\ BagIdle
    /\ GameIdle
    /\ ScoreIdle

BoardLock ==
    \E p \in PieceStates(board) :
        LET r == lock_piece(board, p)
        IN  /\ board' = r.board
            /\ ret' = [NoRet EXCEPT !.op = "lock_piece", !.raised = r.raised]
            /\ UNCHANGED <<bagVars, gameVars, scoreVars>>

BoardClear ==
    LET r == clear_completed_lines(board)
    IN  /\ board' = r.board
        /\ ret' = [NoRet EXCEPT !.op = "clear_completed_lines",
                                !.cleared = r.cleared, !.score_gain = r.score_gain]
        /\ UNCHANGED <<bagVars, gameVars, scoreVars>>

BoardNext == BoardLock \/ BoardClear

SpecBoard == BoardInit /\ [][BoardNext]_vars

----------------------------------------------------------------------------
(* The SevenBagGenerator on its own: next_kind called MaxDraws times, the
   shuffle yielding any ordering.  block and block_len record the draws of
   the current block of seven, counted from the first draw. *)

MaxDraws == 15

BagInit ==
    /\ bag = <<>> /\ block = {} /\ block_len = 0 /\ draws = 0
    /\ board = Board(1, 1, 0) /\ ret = NoRet
    /\ GameIdle
    /\ ScoreIdle

BagNextKind ==
    /\ draws < MaxDraws
    /\ \E shuffled \in (IF bag = <<>> THEN ShuffleOutcomes ELSE {<<>>}) :
          LET n == next_kind(bag, shuffled)
          IN  /\ bag' = n.bag
              /\ block' = IF block_len = 7 THEN {n.kind} ELSE block \cup {n.kind}
              /\ block_len' = IF block_len = 7 THEN 1 ELSE block_len + 1
    /\ draws' = draws + 1
    /\ UNCHANGED <<boardVars, gameVars, scoreVars>>

BagNext == BagNextKind

SpecBag == BagInit /\ [][BagNext]_vars

----------------------------------------------------------------------------
(* The piece geometry on its own: a piece spawned for a board of any width
   from 4 to MaxWidth, then turned and moved in any order within MaxShift
   columns or rows of where it spawned.  ret holds the piece the last call
   returned and the board width it was spawned for. *)

MaxWidth == 12
MaxShift == 1

PieceInit ==
    /\ \E kind \in Kinds : \E board_width \in 4..MaxWidth :
          ret = [op |-> "spawn_tetromino", piece |-> spawn_tetromino(kind, board_width),
                 board_width |-> board_width]
    /\ board = Board(1, 1, 0)
    /\ BagIdle
    /\ GameIdle
    /\ ScoreIdle

PieceSpawn ==
    /\ \E kind \in Kinds :
          ret' = [ret EXCEPT !.op = "spawn_tetromino",
                             !.piece = spawn_tetromino(kind, ret.board_width)]
    /\ UNCHANGED <<board, bagVars, gameVars, scoreVars>>

PieceRotated ==
    /\ \E clockwise \in BOOLEAN :
          ret' = [ret EXCEPT !.op = "rotated", !.piece = rotated(ret.piece, clockwise)]
    /\ UNCHANGED <<board, bagVars, gameVars, scoreVars>>

PieceMoved ==
    /\ \E dx \in {-1, 0, 1} : \E dy \in {0, 1} :
          LET p == moved(ret.piece, dx, dy)
              home == spawn_tetromino(p.kind, ret.board_width)
          IN  /\ p.x - home.x \in (0 - MaxShift)..MaxShift
              /\ p.y \in 0..MaxShift
              /\ ret' = [ret EXCEPT !.op = "moved", !.piece = p]
    /\ UNCHANGED <<board, bagVars, gameVars, scoreVars>>

PieceNext == PieceSpawn \/ PieceRotated \/ PieceMoved

SpecPiece == PieceInit /\ [][PieceNext]_vars

----------------------------------------------------------------------------
(* Game.run: the session from the first spawn (line 188) on.  The board is
   BoardWidth x (VisibleHeight + HIDDEN_ROWS); a sleep or a wait for a key
   lasts one of the Delays; a session is one of Sessions: a mode with the
   counters of a session under way, the order the bag is drawn in, and the
   number of kinds the generator is asked for at most (MaxPieces, and one
   more in the session that holds a piece back). *)

BoardWidth == 4
VisibleHeight == 2
MaxPieces == 3

Delays == {40, 80}

Reverse(seq) == [i \in 1..Len(seq) |-> seq[Len(seq) + 1 - i]]

(* the bag is popped from its end: these are written in drawing order *)
DrawITO == Reverse(<<"I", "T", "O", "J", "L", "S", "Z">>)
DrawOIT == Reverse(<<"O", "I", "T", "J", "L", "S", "Z">>)
DrawJIO == Reverse(<<"J", "I", "O", "T", "L", "S", "Z">>)

GameShuffles == { DrawITO, DrawOIT, DrawJIO }

(* the modes _select_mode builds, with the counters of a session under way *)
Sprint(lines) == GameMode({lines}, {})
Ultra(seconds) == GameMode({}, {seconds})

TimeLimit == 160

StartModes ==
    { [mode |-> Marathon, stats |-> GameStats(0, 1, 0)],
      [mode |-> Marathon, stats |-> GameStats(360, 1, 9)],
      [mode |-> Sprint(1), stats |-> GameStats(0, 1, 0)],
      [mode |-> Sprint(-1), stats |-> GameStats(0, 1, 0)],
      [mode |-> Ultra(TimeLimit), stats |-> GameStats(0, 1, 0)] }

Session(mode, stats, shuffled, kinds_asked) ==
    [start |-> [mode |-> mode, stats |-> stats], shuffled |-> shuffled,
     pieces |-> kinds_asked]

Sessions ==
    { Session(Marathon, GameStats(360, 1, 9), DrawITO, MaxPieces),
      Session(Sprint(1), GameStats(0, 1, 0), DrawITO, MaxPieces),
      Session(Sprint(-1), GameStats(0, 1, 0), DrawOIT, MaxPieces),
      Session(Ultra(TimeLimit), GameStats(0, 1, 0), DrawOIT, MaxPieces),
      Session(Marathon, GameStats(0, 1, 0), DrawJIO, MaxPieces + 1) }

Self == [f \in GameFields \cup {"board", "bag", "draws"} |->
            CASE f = "board" -> board [] f = "bag" -> bag [] f = "draws" -> draws
              [] OTHER -> game[f]]

Shuffled(s) == IF s.bag = <<>> THEN GameShuffles ELSE {<<>>}

Store(s) ==
    /\ s.draws <= piece_budget
    /\ board' = s.board /\ bag' = s.bag /\ draws' = s.draws
    /\ game' = [f \in GameFields |-> s[f]]
    /\ UNCHANGED <<ret, block, block_len, piece_budget, scoreVars>>

Init ==
    /\ \E session \in Sessions :
          LET s == spawn_next_piece(
                      NewGame(session.start.mode, session.start.stats,
                              Board(BoardWidth, VisibleHeight, HIDDEN_ROWS)),
                      session.shuffled)
          IN  /\ session.start \in StartModes /\ session.shuffled \in GameShuffles
              /\ board = s.board /\ bag = s.bag /\ draws = s.draws
              /\ game = [f \in GameFields |-> s[f]]
              /\ piece_budget = session.pieces
    /\ pc = "input" /\ paused = FALSE /\ soft_drop_active = FALSE
    /\ held_since_lock = FALSE
    /\ ret = NoRet /\ block = {} /\ block_len = 0
    /\ ScoreIdle

Running == game.outcome = "running"

(* lines 192-194 *)
LoopTop ==
    /\ Running /\ pc = "top"
    /\ \E shuffled \in Shuffled(Self) :
          Store(IF game.current_piece = NoPiece THEN spawn_next_piece(Self, shuffled)
                ELSE Self)
    /\ soft_drop_active' = FALSE
    /\ pc' = "input"
    /\ UNCHANGED <<paused, held_since_lock>>

(* lines 197-217 for a key that is not the pause key *)
Key(action) ==
    /\ Running /\ pc = "input"
    /\ action # "pause"
    /\ IF paused
       THEN UNCHANGED <<board, ret, bagVars, scoreVars, game, soft_drop_active, held_since_lock,
                        piece_budget>>
       ELSE /\ soft_drop_active' = (soft_drop_active \/ action = "soft_drop")
            /\ \E shuffled \in Shuffled(Self) :
                  LET s == process_action(Self, action, shuffled)
                  IN  /\ Store(s)
                      /\ held_since_lock' =
                            CASE action = "hold" -> (held_since_lock \/ s # Self)
                              [] action = "hard_drop" -> FALSE
                              [] OTHER -> held_since_lock
    /\ UNCHANGED <<pc, paused>>

(* lines 203-209: the pause key read by run(); when it sets `paused`,
   _show_pause_screen is entered *)
KeyPause ==
    /\ Running /\ pc = "input"
    /\ paused' = ~paused
    /\ pc' = IF ~paused THEN "pause_screen" ELSE "input"
    /\ UNCHANGED <<board, ret, bagVars, scoreVars, game, soft_drop_active, held_since_lock,
                    piece_budget>>

(* lines 267-271: _show_pause_screen waits for a key (a blocking getch) and
   returns to line 209 when it is the pause key; `paused` is not touched *)
PauseScreenKey(action) ==
    /\ Running /\ pc = "pause_screen"
    /\ \E d \in Delays : Store(time_passes(Self, d))
    /\ pc' = IF action = "pause" THEN "input" ELSE "pause_screen"
    /\ UNCHANGED <<paused, soft_drop_active, held_since_lock>>

(* lines 198-199 and 221-223: no key is waiting and the session is paused *)
PausedSleep ==
    /\ Running /\ pc = "input" /\ paused
    /\ \E d \in Delays : Store(time_passes(Self, d))
    /\ pc' = "top"
    /\ UNCHANGED <<paused, soft_drop_active, held_since_lock>>

(* lines 198-199 and 225: no key is waiting, gravity is applied *)
Gravity ==
    /\ Running /\ pc = "input" /\ ~paused
    /\ Store(apply_gravity(Self, soft_drop_active))
    /\ pc' = "lock_delay"
    /\ UNCHANGED <<paused, soft_drop_active, held_since_lock>>

(* lines 226-251: lock delay, the time limit, the sleep *)
tick_end(s, d) ==
    LET s1 == handle_lock_delay(s)
        s2 == IF s1.outcome = "running" THEN check_time_limit(s1) ELSE s1
    IN  IF s2.outcome = "running" THEN time_passes(s2, d) ELSE s2

TickEnd ==
    /\ Running /\ pc = "lock_delay"
    /\ \E d \in Delays : Store(tick_end(Self, d))
    /\ held_since_lock' = (held_since_lock /\ handle_lock_delay(Self) = Self)
    /\ pc' = "top"
    /\ UNCHANGED <<paused, soft_drop_active>>

Next ==
    \/ LoopTop
    \/ \E action \in Actions : Key(action)
    \/ KeyPause
    \/ \E action \in Actions : PauseScreenKey(action)
    \/ PausedSleep
    \/ Gravity
    \/ TickEnd

Spec == Init /\ [][Next]_vars

----------------------------------------------------------------------------
(* Properties of the Board (SpecBoard) *)

CellSet(p) ==
    { <<p.x + TETROMINO_SHAPES[p.kind][p.rotation + 1][i][1],
        p.y + TETROMINO_SHAPES[p.kind][p.rotation + 1][i][2]>> : i \in 1..4 }

InBounds(b, p) ==
    \A c \in CellSet(p) : c[1] \in 0..(b.width - 1) /\ c[2] \in 0..(b.total_height - 1)

Free(b, p) ==
    /\ InBounds(b, p)
    /\ \A c \in CellSet(p) : b.grid[c[2] + 1][c[1] + 1] = None

FullRows(b) == { y \in 1..Len(b.grid) : \A x \in 1..b.width : b.grid[y][x] # None }

(* C1: can_place(P) is true exactly when every cell of P is inside the board
   and unoccupied, and once a placeable P has been locked, can_place(P) is
   false. *)
C1_CanPlaceIffFree ==
    \A p \in PieceStates(board) :
        /\ can_place(board, p) <=> Free(board, p)
        /\ can_place(board, p) => ~can_place(lock_piece(board, p).board, p)

C1_Witness ==
    /\ ret.op = "lock_piece" /\ ~ret.raised
    /\ \E p \in PieceStates(board) : InBounds(board, p) /\ ~can_place(board, p)
    /\ \E p \in PieceStates(board) : can_place(board, p)

(* C2: clear_completed_lines returns the number of full rows of the grid
   before the call, and the score gain 0, 40, 100, 300, 1200 for 0, 1, 2, 3,
   4 or more rows. *)
C2_ClearCountAndScore ==
    LET r == clear_completed_lines(board)
        n == Cardinality(FullRows(board))
    IN  /\ r.cleared = n
        /\ r.score_gain = CASE n = 0 -> 0 [] n = 1 -> 40 [] n = 2 -> 100
                            [] n = 3 -> 300 [] OTHER -> 1200
        /\ ret.op = "clear_completed_lines" =>
              ret.score_gain = CASE ret.cleared = 0 -> 0 [] ret.cleared = 1 -> 40
                                 [] ret.cleared = 2 -> 100 [] ret.cleared = 3 -> 300
                                 [] OTHER -> 1200

C2_Witness ==
    ret.op = "clear_completed_lines" /\ ret.cleared > 4 /\ ret.score_gain = 1200

(* C3: a clear_completed_lines call leaves total_height rows of width W, the
   top `cleared` rows empty, and below them the rows that were not full,
   unchanged and in their order. *)
ClearPost(b, b2, cleared) ==
    /\ Len(b2.grid) = b.total_height
    /\ \A y \in 1..Len(b2.grid) : Len(b2.grid[y]) = b.width
    /\ \A y \in 1..cleared : \A x \in 1..b.width : b2.grid[y][x] = None
    /\ SubSeq(b2.grid, cleared + 1, Len(b2.grid))
         = SelectSeq(b.grid, LAMBDA row : \E x \in 1..Len(row) : row[x] = None)

C3_ClearKeepsOtherRows ==
    [][ret'.op = "clear_completed_lines" => ClearPost(board, board', ret'.cleared)]_vars

C3_Witness ==
    /\ ret.op = "clear_completed_lines" /\ ret.cleared >= 1
    /\ \E y \in 1..Len(board.grid) : \E x \in 1..board.width : board.grid[y][x] # None

(* C4: for a placeable P, P moved down by every k in 0..drop_distance(P) is
   placeable, P moved down by drop_distance(P) + 1 is not, and hard_drop(P)
   is P moved down by drop_distance(P). *)
C4_DropDistanceIsMaximal ==
    \A p \in PieceStates(board) :
        can_place(board, p) =>
            LET d == drop_distance(board, p)
            IN  /\ d >= 0
                /\ \A k \in 0..d : Free(board, moved(p, 0, k))
                /\ ~Free(board, moved(p, 0, d + 1))
                /\ hard_drop(board, p) = moved(p, 0, d)

C4_Witness ==
    \E p \in PieceStates(board) :
        /\ can_place(board, p)
        /\ drop_distance(board, p) >= 1
        /\ InBounds(board, moved(p, 0, drop_distance(board, p) + 1))

----------------------------------------------------------------------------
(* Properties of the SevenBagGenerator (SpecBag) *)

(* C5: counted from the first draw, every block of seven draws holds each of
   the seven kinds exactly once, and the bag never holds more than seven
   kinds nor one kind twice. *)
C5_BlocksOfSeven ==
    /\ Cardinality(block) = block_len
    /\ block_len = 7 => block = Kinds
    /\ Len(bag) <= 7
    /\ Cardinality(Range(bag)) = Len(bag)
    /\ draws > 0 => Range(bag) \cup block = Kinds /\ Len(bag) + block_len = 7

C5_Witness == draws = 14 /\ block_len = 7 /\ bag = <<>>

----------------------------------------------------------------------------
(* Properties of the engine (Spec) *)

Table(n) == CASE n = 0 -> 0 [] n = 1 -> 40 [] n = 2 -> 100 [] n = 3 -> 300
              [] OTHER -> 1200

(* the board with the cells of p occupied *)
Stamp(b, p) ==
    [b EXCEPT !.grid = [y \in 1..b.total_height |-> [x \in 1..b.width |->
        IF <<x - 1, y - 1>> \in CellSet(p) THEN TETROMINO_GLYPH ELSE b.grid[y][x]]]]

(* the board with its full rows taken out and as many empty rows on top *)
WithoutFullRows(b) ==
    LET kept == SelectSeq(b.grid, LAMBDA row : \E x \in 1..Len(row) : row[x] = None)
    IN  [b EXCEPT !.grid = [i \in 1..(b.total_height - Len(kept)) |->
                               [x \in 1..b.width |-> None]] \o kept]

(* the largest d with p placeable at every 0..d rows further down *)
Fall(b, p) ==
    Max({ d \in 0..b.total_height : \A k \in 0..d : Free(b, moved(p, 0, k)) })

StatsAfterLock(stats, n, bonus) ==
    IF n = 0 THEN [stats EXCEPT !.score = @ + bonus]
    ELSE [score |-> stats.score + bonus
                      + Table(n) * (1 + ((stats.total_lines + n) \div 10)),
          level |-> 1 + ((stats.total_lines + n) \div 10),
          total_lines |-> stats.total_lines + n]

LockDelayExpired ==
    /\ game.current_piece # NoPiece
    /\ \E age \in game.lock_age : age >= LOCK_DELAY_SECONDS

HardDropStep == Key("hard_drop") /\ ~paused

(* C6: a lock (by lock delay or by hard drop) that clears n >= 1 rows adds n
   to total_lines, sets level to 1 + total_lines div 10 of the new
   total_lines and adds table(n) x the new level to the score; a lock that
   clears no row leaves the three unchanged; level = 1 + total_lines div 10
   in every state. *)
C6_LockUpdatesStats ==
    /\ [](game.stats.level = 1 + (game.stats.total_lines \div 10))
    /\ [][/\ (TickEnd /\ LockDelayExpired) =>
               game'.stats = StatsAfterLock(game.stats,
                   Cardinality(FullRows(Stamp(board, game.current_piece))), 0)
          /\ HardDropStep =>
               LET d == Fall(board, game.current_piece)
                   landed == moved(game.current_piece, 0, d)
               IN  game'.stats = StatsAfterLock(game.stats,
                       Cardinality(FullRows(Stamp(board, landed))), 2 * d)]_vars

C6_Witness ==
    /\ game.stats.total_lines = 10 /\ game.stats.level = 2
    /\ game.stats.score >= 360 + 80

(* C7: a hard_drop action, in that one action and with no time passing,
   lands the piece drop_distance rows down, adds 2 x drop_distance to the
   score, writes the piece into the playfield and resolves the line clears,
   and then either clears the lock-delay timer and makes the queued next
   piece the current piece, or ends the session. *)
C7_HardDropLocksAtOnce ==
    [][HardDropStep =>
        LET d == Fall(board, game.current_piece)
            landed == Stamp(board, moved(game.current_piece, 0, d))
            n == Cardinality(FullRows(landed))
        IN  /\ board' = WithoutFullRows(landed)
            /\ game'.stats.score = StatsAfterLock(game.stats, n, 2 * d).score
            /\ game'.gravity_age = game.gravity_age
            /\ game'.elapsed = game.elapsed
            /\ pc' = pc
            /\ IF game'.outcome = "running"
               THEN /\ game'.lock_age = {}
                    /\ game'.current_piece = game.next_piece
                    /\ game'.next_piece # NoPiece
                    /\ draws' = draws + 1
                    /\ can_place(board', game'.current_piece)
               ELSE game'.outcome \in {"GameOver", "ModeComplete"}]_vars

C7_Witness ==
    /\ Running /\ pc = "input" /\ draws = 3
    /\ game.current_piece.y = 0 /\ game.gravity_age = 0
    /\ game.stats.score = 4
    /\ \E y \in 1..board.total_height : \E x \in 1..board.width : board.grid[y][x] # None

GravityDue ==
    game.gravity_age * game.gravity_interval.den
        * (IF soft_drop_active THEN SOFT_DROP_DIVISOR ELSE 1)
      >= game.gravity_interval.num

Armed(lock_age) == IF lock_age = {} THEN {0} ELSE lock_age

(* C8: the gravity step tries to move the piece down only when the time since
   the last fall is at least the gravity interval; a fall that succeeds moves
   the piece one row down, clears the lock-delay timer and restarts the fall
   clock; a fall that fails leaves the piece, restarts the fall clock and
   arms the lock-delay timer only if it is not armed. *)
C8_GravityStep ==
    [][Gravity =>
        /\ board' = board /\ game'.stats = game.stats
        /\ game'.outcome = "running"
        /\ IF ~GravityDue THEN game' = game
           ELSE IF Free(board, moved(game.current_piece, 0, 1))
           THEN /\ game'.current_piece = moved(game.current_piece, 0, 1)
                /\ game'.lock_age = {}
                /\ game'.gravity_age = 0
           ELSE /\ game'.current_piece = game.current_piece
                /\ game'.lock_age = Armed(game.lock_age)
                /\ game'.gravity_age = 0]_vars

C8_Witness ==
    /\ pc = "lock_delay" /\ game.gravity_age = 0
    /\ game.lock_age # {} /\ game.lock_age # {0}
    /\ ~can_place(board, moved(game.current_piece, 0, 1))

SoftDropStep == Key("soft_drop") /\ ~paused

(* C9: a soft_drop that can move the piece one row down does so, adds 1 to the
   score and restarts the fall clock; one that cannot leaves piece, board and
   score unchanged, arms the lock-delay timer if it is not armed, and does
   not lock the piece. *)
C9_SoftDrop ==
    [][SoftDropStep =>
        /\ board' = board
        /\ game'.outcome = "running"
        /\ IF Free(board, moved(game.current_piece, 0, 1))
           THEN /\ game'.current_piece = moved(game.current_piece, 0, 1)
                /\ game'.stats = [game.stats EXCEPT !.score = @ + 1]
                /\ game'.gravity_age = 0
           ELSE /\ game'.current_piece = game.current_piece
                /\ game'.stats = game.stats
                /\ game'.lock_age = Armed(game.lock_age)
                /\ game'.gravity_age = game.gravity_age]_vars

C9_Witness ==
    /\ Running /\ pc = "input" /\ soft_drop_active
    /\ game.lock_age = {0} /\ game.stats.score = 3
    /\ ~can_place(board, moved(game.current_piece, 0, 1))

(* C10: in a running session, if the lock-delay timer is armed then there is
   a current piece and it cannot move down one row. *)
C10_TimerArmedOnlyAtRest ==
    (Running /\ game.lock_age # {}) =>
        /\ game.current_piece # NoPiece
        /\ ~can_place(board, moved(game.current_piece, 0, 1))

HoldStep == Key("hold") /\ ~paused

(* C11: once a hold has taken effect, a further hold before the next piece
   lock is a no-op: it leaves the current piece, the held kind and the next
   piece as they are. *)
C11_SecondHoldIsNoOp ==
    [][(HoldStep /\ held_since_lock) =>
          /\ game'.current_piece = game.current_piece
          /\ game'.held_kind = game.held_kind
          /\ game'.next_piece = game.next_piece]_vars

RotateStep(clockwise) ==
    Key(IF clockwise THEN "rotate_cw" ELSE "rotate_ccw") /\ ~paused

KickOrder == <<0, -1, 1, -2, 2>>

(* p turned a quarter and shifted kick columns *)
Kicked(p, clockwise, kick) ==
    [kind |-> p.kind, rotation |-> (p.rotation + (IF clockwise THEN 1 ELSE 3)) % 4,
     x |-> p.x + kick, y |-> p.y]

(* C12: a rotate_cw / rotate_ccw action replaces the current piece by the
   rotated piece shifted by the first of the offsets 0, -1, +1, -2, +2 at
   which it is placeable (same origin y, rotation index +1 or -1 modulo 4);
   if it is placeable at none of them, the piece, the board, the score and
   the timers are unchanged. *)
C12_RotateWithKicks ==
    [][\A clockwise \in BOOLEAN :
        RotateStep(clockwise) =>
            LET p == game.current_piece
                ok == { i \in 1..Len(KickOrder) :
                          Free(board, Kicked(p, clockwise, KickOrder[i])) }
            IN  /\ board' = board
                /\ game'.stats = game.stats
                /\ IF ok = {} THEN game' = game
                   ELSE game'.current_piece = Kicked(p, clockwise, KickOrder[Min(ok)])]_vars

(* an I lying flat in its third rotation state beside an O locked in the two
   left columns: upright it fits only in the two right columns, so it was
   turned upright with a kick of +2 and flat again with a kick of -2 *)
C12_Witness ==
    /\ Running
    /\ game.current_piece.kind = "I" /\ game.current_piece.rotation = 2
    /\ board.grid[board.total_height][1] # None
    /\ board.grid[board.total_height][2] # None
    /\ board.grid[board.total_height - 1][1] # None

MoveStep(dx) == Key(IF dx < 0 THEN "move_left" ELSE "move_right") /\ ~paused

(* C13: a move_left / move_right action moves the current piece one column
   if and only if the piece is placeable there; otherwise it leaves the whole
   session state unchanged.  In both cases board, score, level, lines and
   held kind are unchanged. *)
C13_MoveLeftRight ==
    [][\A dx \in {-1, 1} :
        MoveStep(dx) =>
            /\ board' = board
            /\ game'.stats = game.stats
            /\ game'.held_kind = game.held_kind
            /\ IF Free(board, moved(game.current_piece, dx, 0))
               THEN game'.current_piece = [game.current_piece EXCEPT !.x = @ + dx]
               ELSE game' = game]_vars

(* an O that was moved from its spawn column to the left wall and rests
   there with the lock-delay timer armed *)
C13_Witness ==
    /\ Running /\ pc = "input" /\ ~paused
    /\ game.current_piece.kind = "O" /\ game.current_piece.x = 0
    /\ game.lock_age # {}
    /\ ~can_place(board, moved(game.current_piece, -1, 0))
    /\ ~can_place(board, moved(game.current_piece, 0, 1))

SpawnStep == LoopTop /\ game.current_piece = NoPiece
FirstHold == HoldStep /\ ~game.hold_used /\ game.held_kind = None
SwapHold == HoldStep /\ ~game.hold_used /\ game.held_kind # None

GameOverNext == game'.outcome = "GameOver"

(* C14: the session ends with GameOver exactly when (1) the piece taken from
   the next-piece queue, at tick start, after a hard drop or after a first
   hold, is not placeable at its spawn position, or (2) a hold swap finds the
   held kind not placeable at its spawn position; in case (2) the held kind
   and the playfield are unchanged. *)
C14_GameOverOnlyWhenNoRoom ==
    [][/\ SpawnStep => (GameOverNext <=> ~Free(board, game.next_piece))
       /\ HardDropStep =>
             /\ GameOverNext => ~Free(board', game.next_piece)
             /\ ~Free(board', game.next_piece) =>
                   game'.outcome \in {"GameOver", "ModeComplete"}
       /\ FirstHold => (GameOverNext <=> ~Free(board, game.next_piece))
       /\ SwapHold =>
             /\ GameOverNext <=>
                   ~Free(board, spawn_tetromino(game.held_kind, board.width))
             /\ GameOverNext => game'.held_kind = game.held_kind /\ board' = board
       /\ GameOverNext => SpawnStep \/ HardDropStep \/ FirstHold \/ SwapHold]_vars

(* the session ended by a hold swap: the held kind has no room at its spawn
   position while the current piece is still where it could be placed *)
C14_Witness ==
    /\ game.outcome = "GameOver"
    /\ game.held_kind # None
    /\ can_place(board, game.current_piece)
    /\ ~can_place(board, spawn_tetromino(game.held_kind, board.width))

LockStep == (TickEnd /\ LockDelayExpired) \/ HardDropStep

(* C15: in a mode with a line target T, every lock after which
   total_lines >= T ends the session with ModeComplete, and ModeComplete is
   raised before the following piece is taken from the queue. *)
C15_LineTargetEndsSession ==
    [][LockStep =>
        \A target \in game.mode.sprint_target_lines :
            /\ game'.stats.total_lines >= target => game'.outcome = "ModeComplete"
            /\ game'.outcome = "ModeComplete" =>
                  /\ draws' = draws
                  /\ game'.next_piece = game.next_piece]_vars

(* C16: in a mode with time limit L, every tick of a non-paused session that
   comes to its end-of-tick test with the elapsed session time at least L
   ends the session with ModeComplete, whether the piece is falling, waits
   for its lock, or was locked in this tick. *)
C16_TimeLimitEndsSession ==
    [][TickEnd =>
        \A limit \in game.mode.time_limit_seconds :
            game.elapsed >= limit => game'.outcome = "ModeComplete"]_vars

(* the time limit reached in the tick that locked the piece *)
C16_Witness ==
    /\ game.outcome = "ModeComplete"
    /\ game.current_piece = NoPiece
    /\ \E limit \in game.mode.time_limit_seconds : game.elapsed >= limit

PauseKeyStep == KeyPause \/ PauseScreenKey("pause")

OtherKeyStep == \E action \in Actions \ {"pause"} : Key(action) \/ PauseScreenKey(action)

(* C17: a pause action received while running enters Paused, and the next
   pause action received returns the engine to running; while Paused no
   other action changes piece, board, score or held kind. *)
C17_PauseToggles ==
    [][/\ (PauseKeyStep /\ ~paused) => paused'
       /\ (PauseKeyStep /\ paused) => ~paused'
       /\ (OtherKeyStep /\ paused) =>
             /\ game'.current_piece = game.current_piece
             /\ board' = board
             /\ game'.stats.score = game.stats.score
             /\ game'.held_kind = game.held_kind]_vars

(* C18: time that passes while the session is Paused is counted by no timer:
   the time since the last fall, the time since the lock-delay timer was
   armed and the elapsed session time stand still. *)
C18_PausedTimeNotCounted ==
    [][(paused /\ paused') =>
          /\ game'.gravity_age = game.gravity_age
          /\ game'.lock_age = game.lock_age
          /\ game'.elapsed = game.elapsed]_vars

----------------------------------------------------------------------------
(* Properties of the piece geometry (SpecPiece) *)

Columns(p) == { c[1] : c \in CellSet(p) }

LeftMargin(p) == Min(Columns(p))
RightMargin(p, board_width) == board_width - 1 - Max(Columns(p))
BoxWidth(p) == Max(Columns(p)) - Min(Columns(p)) + 1

SpawnInside(p, board_width) ==
    /\ p.rotation = 0 /\ p.y = 0
    /\ \A c \in Columns(p) : 0 <= c /\ c < board_width
    /\ LeftMargin(p) + RightMargin(p, board_width) = board_width - BoxWidth(p)

(* C19 as stated: for every kind and every board width W >= 4 the spawned
   piece has rotation index 0 and origin y = 0, all its cells in columns
   0..W-1, left margin + right margin = W - width, and when W - width is odd
   the left margin is the right margin + 1. *)
C19_SpawnBiasedRight ==
    ret.op = "spawn_tetromino" =>
        /\ SpawnInside(ret.piece, ret.board_width)
        /\ IF (ret.board_width - BoxWidth(ret.piece)) % 2 = 1
           THEN LeftMargin(ret.piece) = RightMargin(ret.piece, ret.board_width) + 1
           ELSE LeftMargin(ret.piece) = RightMargin(ret.piece, ret.board_width)

(* C19 amended: as above, but when W - width is odd the right margin is the
   left margin + 1: the column left over is on the right of the piece. *)
C19_SpawnCentred ==
    ret.op = "spawn_tetromino" =>
        /\ SpawnInside(ret.piece, ret.board_width)
        /\ IF (ret.board_width - BoxWidth(ret.piece)) % 2 = 1
           THEN RightMargin(ret.piece, ret.board_width) = LeftMargin(ret.piece) + 1
           ELSE LeftMargin(ret.piece) = RightMargin(ret.piece, ret.board_width)

(* a T, three columns wide, spawned for the board of the game, 12 wide *)
C19_Witness ==
    /\ ret.op = "spawn_tetromino"
    /\ ret.piece.kind = "T" /\ ret.board_width = 12
    /\ LeftMargin(ret.piece) = 4 /\ RightMargin(ret.piece, ret.board_width) = 5

FourTurns(p, clockwise) ==
    rotated(rotated(rotated(rotated(p, clockwise), clockwise), clockwise), clockwise)

(* C20: for every piece state P, rotated() applied four times in the same
   direction gives P again (rotation index, origin and cells), rotated
   clockwise and then counter-clockwise gives P, and the rotation index
   stays in 0..3. *)
C20_FourTurnsAndInverse ==
    LET p == ret.piece
    IN  /\ p.rotation \in 0..3
        /\ \A clockwise \in BOOLEAN :
              /\ rotated(p, clockwise).rotation \in 0..3
              /\ FourTurns(p, clockwise) = p
              /\ CellSet(FourTurns(p, clockwise)) = CellSet(p)
              /\ rotated(rotated(p, clockwise), ~clockwise) = p
              /\ CellSet(rotated(rotated(p, clockwise), ~clockwise)) = CellSet(p)

(* a piece turned counter-clockwise from rotation state 0 to state 3 *)
C20_Witness ==
    /\ ret.op = "rotated"
    /\ ret.piece.kind = "L" /\ ret.piece.rotation = 3
    /\ ret.piece.y = 1

----------------------------------------------------------------------------
(* The SevenBagGenerator seen through a window of draws: next_kind called
   MaxWindowDraws times, ret.kinds holding the kinds the last WindowLen calls
   returned, oldest first.  The shuffle yields one of WindowShuffles: every
   kind can be the first and the last one drawn from a bag. *)

WindowLen == 2 * (Len(ALL_TETROMINO_TYPES) - 1) + 1

MaxWindowDraws == 16

Rotation(seq, n) == [i \in 1..Len(seq) |-> seq[((i + n - 1) % Len(seq)) + 1]]

WindowShuffles ==
    UNION { { Rotation(ALL_TETROMINO_TYPES, n), Reverse(Rotation(ALL_TETROMINO_TYPES, n)) } :
            n \in 0..(Len(ALL_TETROMINO_TYPES) - 1) }

LastOf(seq, n) == IF Len(seq) <= n THEN seq ELSE SubSeq(seq, Len(seq) - n + 1, Len(seq))

WindowInit ==
    /\ bag = <<>> /\ block = {} /\ block_len = 0 /\ draws = 0
    /\ board = Board(1, 1, 0)
    /\ ret = [op |-> "next_kind", kinds |-> <<>>]
    /\ GameIdle
    /\ ScoreIdle

WindowNextKind ==
    /\ draws < MaxWindowDraws
    /\ \E shuffled \in (IF bag = <<>> THEN WindowShuffles ELSE {<<>>}) :
          LET n == next_kind(bag, shuffled)
          IN  /\ bag' = n.bag
              /\ ret' = [ret EXCEPT !.kinds = LastOf(Append(@, n.kind), WindowLen)]
    /\ draws' = draws + 1
    /\ UNCHANGED <<board, block, block_len, gameVars, scoreVars>>

WindowNext == WindowNextKind

SpecWindow == WindowInit /\ [][WindowNext]_vars

Occurrences(seq, k) == Cardinality({ i \in 1..Len(seq) : seq[i] = k })

(* C21 as claimed: in every window of 13 consecutive draws every kind occurs
   at most twice. *)
C21_AtMostTwiceInWindow ==
    ret.op = "next_kind" => \A k \in Kinds : Occurrences(ret.kinds, k) <= 2

(* C21 amended: in every window of 13 consecutive draws, at any offset, every
   kind occurs at most three times: the window reaches into at most three
   bags and each bag holds every kind once. *)
C21_AtMostThriceInWindow ==
    ret.op = "next_kind" => \A k \in Kinds : Occurrences(ret.kinds, k) <= 3

(* a full window in which one kind was drawn last from one bag, once from the
   next bag and first from the bag after it *)
C21_Witness ==
    /\ ret.op = "next_kind" /\ Len(ret.kinds) = WindowLen
    /\ \E k \in Kinds : Occurrences(ret.kinds, k) = 3

----------------------------------------------------------------------------
(* highscore.py.  A text is a sequence of characters (strings of length 1).
   Python values, as json.loads builds them, are records: n is the value of
   an int or bool and the whole part of a float (the part int() keeps),
   chars the characters of a str (for a float: <<>> when finite, else what
   it is), items the members of a dict or the elements of a list. *)

PyValue(type, n, chars, items) ==
    [type |-> type, n |-> n, chars |-> chars, items |-> items]

PyInt(n) == PyValue("int", n, <<>>, <<>>)
PyBool(b) == PyValue("bool", IF b THEN 1 ELSE 0, <<>>, <<>>)
PyFloat(whole, what) == PyValue("float", whole, what, <<>>)
PyStr(chars) == PyValue("str", 0, chars, <<>>)
PyNone == PyValue("NoneType", 0, <<>>, <<>>)
PyList(items) == PyValue("list", 0, <<>>, items)
PyDict(items) == PyValue("dict", 0, <<>>, items)

DigitChars == <<"0", "1", "2", "3", "4", "5", "6", "7", "8", "9">>

IsDigit(c) == c \in Range(DigitChars)

DigitValue(c) == (CHOOSE i \in 1..10 : DigitChars[i] = c) - 1

AllDigits(t) == Len(t) > 0 /\ \A i \in 1..Len(t) : IsDigit(t[i])

RECURSIVE DigitsValue(_)
DigitsValue(t) ==
    IF t = <<>> THEN 0
    ELSE 10 * DigitsValue(SubSeq(t, 1, Len(t) - 1)) + DigitValue(t[Len(t)])

(* str(n) for a non-negative n, and for any int *)
RECURSIVE NatRepr(_)
NatRepr(n) ==
    IF n < 10 THEN <<DigitChars[n + 1]>>
    ELSE NatRepr(n \div 10) \o <<DigitChars[(n % 10) + 1]>>

IntRepr(n) == IF n < 0 THEN <<"-">> \o NatRepr(0 - n) ELSE NatRepr(n)

RECURSIVE Strip(_)
Strip(t) ==
    IF t = <<>> THEN t
    ELSE IF t[1] = " " THEN Strip(Tail(t))
    ELSE IF t[Len(t)] = " " THEN Strip(SubSeq(t, 1, Len(t) - 1))
    ELSE t

Quote == "\""

Quoted(chars) == <<Quote>> \o chars \o <<Quote>>

BestScoreKey == <<"b", "e", "s", "t", "_", "s", "c", "o", "r", "e">>

IndexOf(t, c) ==
    IF c \in Range(t) THEN Min({ i \in 1..Len(t) : t[i] = c }) ELSE 0

(* a JSON number without exponent: an optional minus sign, digits with no
   leading zero, and optionally a point followed by digits *)
JsonInteger(t) ==
    LET digits == IF t # <<>> /\ t[1] = "-" THEN Tail(t) ELSE t
    IN  AllDigits(digits) /\ (digits[1] = "0" => Len(digits) = 1)

JsonFraction(t) ==
    LET dot == IndexOf(t, ".")
    IN  /\ dot > 1 /\ dot < Len(t)
        /\ JsonInteger(SubSeq(t, 1, dot - 1))
        /\ AllDigits(SubSeq(t, dot + 1, Len(t)))

SignedValue(t) ==
    IF t[1] = "-" THEN 0 - DigitsValue(Tail(t)) ELSE DigitsValue(t)

JsonInvalid == [raised |-> "JSONDecodeError", value |-> PyNone]

JsonOk(v) == [raised |-> None, value |-> v]

(* json.loads on documents with at most one member per object and one
   element per list: the value, or JSONDecodeError *)
RECURSIVE json_loads(_)
json_loads(text) ==
    LET t == Strip(text)
        inner == Strip(SubSeq(t, 2, Len(t) - 1))
        colon == IndexOf(inner, ":")
        key == json_loads(SubSeq(inner, 1, colon - 1))
        member == json_loads(SubSeq(inner, colon + 1, Len(inner)))
        element == json_loads(inner)
    IN  CASE t = <<>> -> JsonInvalid
          [] t = <<"n", "u", "l", "l">> -> JsonOk(PyNone)
          [] t = <<"t", "r", "u", "e">> -> JsonOk(PyBool(TRUE))
          [] t = <<"f", "a", "l", "s", "e">> -> JsonOk(PyBool(FALSE))
          [] t = <<"N", "a", "N">> -> JsonOk(PyFloat(0, <<"n", "a", "n">>))
          [] t = <<"I", "n", "f", "i", "n", "i", "t", "y">> ->
                JsonOk(PyFloat(0, <<"i", "n", "f">>))
          [] JsonInteger(t) -> JsonOk(PyInt(SignedValue(t)))
          [] JsonFraction(t) ->
                JsonOk(PyFloat(SignedValue(SubSeq(t, 1, IndexOf(t, ".") - 1)), <<>>))
          [] Len(t) >= 2 /\ t[1] = Quote /\ t[Len(t)] = Quote ->
                IF Quote \in Range(SubSeq(t, 2, Len(t) - 1)) THEN JsonInvalid
                ELSE JsonOk(PyStr(SubSeq(t, 2, Len(t) - 1)))
          [] Len(t) >= 2 /\ t[1] = "[" /\ t[Len(t)] = "]" ->
                IF inner = <<>> THEN JsonOk(PyList(<<>>))
                ELSE IF element.raised # None THEN JsonInvalid
                ELSE JsonOk(PyList(<<element.value>>))
          [] Len(t) >= 2 /\ t[1] = "{" /\ t[Len(t)] = "}" ->
                IF inner = <<>> THEN JsonOk(PyDict(<<>>))
                ELSE IF colon = 0 THEN JsonInvalid
                ELSE IF key.raised # None \/ key.value.type # "str" THEN JsonInvalid
                ELSE IF member.raised # None THEN JsonInvalid
                ELSE JsonOk(PyDict(<< <<key.value.chars, member.value>> >>))
          [] OTHER -> JsonInvalid

(* json.dumps({"best_score": n}) *)
json_dumps(n) ==
    <<"{">> \o Quoted(BestScoreKey) \o <<":", " ">> \o IntRepr(n) \o <<"}">>

(* data.get("best_score", 0) on a dict *)
dict_get(data, key, default) ==
    IF \E i \in 1..Len(data.items) : data.items[i][1] = key
    THEN data.items[CHOOSE i \in 1..Len(data.items) : data.items[i][1] = key][2]
    ELSE default

(* int(v): the integer, or the exception raised *)
int(v) ==
    LET t == Strip(v.chars)
        digits == IF t # <<>> /\ t[1] \in {"-", "+"} THEN Tail(t) ELSE t
    IN  CASE v.type \in {"int", "bool"} -> [raised |-> None, n |-> v.n]
          [] v.type = "float" ->
                IF v.chars = <<>> THEN [raised |-> None, n |-> v.n]
                ELSE IF v.chars = <<"n", "a", "n">> THEN [raised |-> "ValueError", n |-> 0]
                ELSE [raised |-> "OverflowError", n |-> 0]
          [] v.type = "str" ->
                IF AllDigits(digits)
                THEN [raised |-> None,
                      n |-> IF t[1] = "-" THEN 0 - DigitsValue(digits) ELSE DigitsValue(digits)]
                ELSE [raised |-> "ValueError", n |-> 0]
          [] OTHER -> [raised |-> "TypeError", n |-> 0]

(* What is stored at the path: state is "missing", "file" (text holds its
   characters), "undecodable" (a file whose bytes are not UTF-8),
   "unreadable" (reading raises OSError) or "directory"; writable says that
   path.write_text succeeds, dir_writable that a file can be created in the
   parent directory and renamed over the path. *)
ScoreFile(state, text, writable, dir_writable) ==
    [state |-> state, text |-> text, writable |-> writable, dir_writable |-> dir_writable]

TrackerOf(best_score, raised) ==
    [state |-> IF raised = None THEN "ok" ELSE "raised",
     best_score |-> best_score, raised |-> raised]

(* HighScoreTracker(path): __post_init__ and _load; best_score starts at 0 *)
load(file) ==
    LET data == json_loads(file.text)
        converted == int(dict_get(data.value, BestScoreKey, PyInt(0)))
    IN  CASE file.state = "missing" -> TrackerOf(0, None)
          [] file.state \in {"unreadable", "directory"} -> TrackerOf(0, None)
          [] file.state = "undecodable" -> TrackerOf(0, "UnicodeDecodeError")
          [] OTHER ->
                IF data.raised # None THEN TrackerOf(0, None)
                ELSE IF data.value.type # "dict" THEN TrackerOf(0, "AttributeError")
                ELSE IF converted.raised = None THEN TrackerOf(converted.n, None)
                ELSE IF converted.raised \in {"TypeError", "ValueError"}
                     THEN TrackerOf(0, None)
                ELSE TrackerOf(0, converted.raised)

(* _save: the temporary file renamed over the path, else the path written
   directly, else OSError *)
save(file, best_score) ==
    LET written == ScoreFile("file", json_dumps(best_score), TRUE, file.dir_writable)
    IN  IF file.dir_writable /\ file.state # "directory"
        THEN [file |-> written, raised |-> None]
        ELSE IF file.writable
             THEN [file |-> [written EXCEPT !.writable = file.writable], raised |-> None]
        ELSE [file |-> file, raised |-> "OSError"]

(* record that also takes a score equal to the best one *)
record_accepts_equal(t, file, score) ==
    LET saved == save(file, score)
    IN  IF score >= t.best_score
        THEN [tracker |-> TrackerOf(score, saved.raised), file |-> saved.file,
              result |-> saved.raised = None]
        ELSE [tracker |-> t, file |-> file, result |-> FALSE]

(* record(score) on tracker t: an OSError out of _save leaves record (and
   main, which does not catch it) with best_score already assigned *)
record(t, file, score) ==
    LET saved == save(file, score)
    IN  IF score > t.best_score
        THEN [tracker |-> TrackerOf(score, saved.raised), file |-> saved.file,
              result |-> saved.raised = None]
        ELSE [tracker |-> t, file |-> file, result |-> FALSE]

----------------------------------------------------------------------------
(* The HighScoreTracker on its own: constructed on any of ScoreFiles, then
   record called with any of Scores, and new trackers constructed on the
   same path, in any order. *)

MaxScore == 12

Scores == 0..MaxScore

Member(key, value) == <<"{">> \o Quoted(key) \o <<":">> \o value \o <<"}">>

ScoreTexts ==
    { <<>>,
      <<"n", "o", "t", " ", "j", "s", "o", "n">>,
      <<"5">>,
      Quoted(<<"a", "b", "c">>),
      <<"[", "]">>,
      <<"n", "u", "l", "l">>,
      <<"{", "}">>,
      Member(<<"x">>, <<"1">>),
      Member(BestScoreKey, <<"7">>),
      Member(BestScoreKey, <<" ", "1", "1">>),
      Member(BestScoreKey, <<"-", "3">>),
      Member(BestScoreKey, <<"0", "1", "2">>),
      Member(BestScoreKey, <<"2", ".", "7">>),
      Member(BestScoreKey, Quoted(<<" ", "1", "2", " ">>)),
      Member(BestScoreKey, Quoted(<<"a", "b", "c">>)),
      Member(BestScoreKey, <<"n", "u", "l", "l">>),
      Member(BestScoreKey, <<"t", "r", "u", "e">>),
      Member(BestScoreKey, <<"[", "1", "]">>),
      Member(BestScoreKey, <<"N", "a", "N">>),
      Member(BestScoreKey, <<"I", "n", "f", "i", "n", "i", "t", "y">>) }

ScoreFiles ==
    { ScoreFile("missing", <<>>, w, w) : w \in BOOLEAN }
    \cup { ScoreFile("directory", <<>>, FALSE, w) : w \in BOOLEAN }
    \cup { ScoreFile(state, <<>>, w[1], w[2]) :
              state \in {"unreadable", "undecodable"}, w \in BOOLEAN \X BOOLEAN }
    \cup { ScoreFile("file", text, w[1], w[2]) :
              text \in ScoreTexts, w \in BOOLEAN \X BOOLEAN }

ScoreRet(op, score, result) == [op |-> op, score |-> score, result |-> result]

ScoreInit ==
    /\ \E file \in ScoreFiles :
          /\ score_file = file
          /\ tracker = load(file)
    /\ ret = ScoreRet("HighScoreTracker", 0, FALSE)
    /\ board = Board(1, 1, 0)
    /\ BagIdle
    /\ GameIdle

(* tracker.record(score) *)
ScoreRecord ==
    /\ tracker.state = "ok"
    /\ \E score \in Scores :
          LET r == record(tracker, score_file, score)
          IN  /\ tracker' = r.tracker
              /\ score_file' = r.file
              /\ ret' = ScoreRet("record", score, r.result)
    /\ UNCHANGED <<board, bagVars, gameVars>>

(* a new HighScoreTracker constructed on the same path *)
ScoreConstruct ==
    /\ tracker' = load(score_file)
    /\ ret' = ScoreRet("HighScoreTracker", 0, FALSE)
    /\ UNCHANGED <<board, bagVars, gameVars, score_file>>

ScoreNext == ScoreRecord \/ ScoreConstruct

SpecScore == ScoreInit /\ [][ScoreNext]_vars

RecordStep == ScoreRecord /\ tracker'.state = "ok"

(* C22: every record(s) call that returns gives true exactly when s is
   strictly greater than the best score before the call and leaves
   best_score at the greater of the two; best_score never decreases, whether
   by record or by constructing a new tracker on the same path; and a new
   tracker constructed on the path loads the best_score the tracker has. *)
C22_RecordAndRoundTrip ==
    /\ [](tracker.state = "ok" =>
            /\ load(score_file).state = "ok"
            /\ load(score_file).best_score = tracker.best_score)
    /\ [][RecordStep =>
            /\ ret'.result = (ret'.score > tracker.best_score)
            /\ tracker'.best_score = Max({tracker.best_score, ret'.score})]_vars
    /\ [][tracker.state = "ok" /\ tracker'.state = "ok" =>
            tracker'.best_score >= tracker.best_score]_vars

(* a two-digit score recorded through the direct write, the temporary file
   being impossible, on a file that held a lower score *)
C22_Witness ==
    /\ ret = ScoreRet("record", 12, TRUE)
    /\ tracker = TrackerOf(12, None)
    /\ ~score_file.dir_writable
    /\ score_file.text = json_dumps(12)

(* the cases of a score file the claim names *)
Corrupt(file) ==
    LET data == json_loads(file.text)
        value == dict_get(data.value, BestScoreKey, PyNone)
    IN  \/ file.state \in {"missing", "unreadable", "directory", "undecodable"}
        \/ data.raised # None
        \/ data.value.type # "dict"
        \/ value.type \in {"NoneType", "list", "dict"}
        \/ value.type = "str" /\ int(value).raised # None
        \/ value.type = "float" /\ value.chars # <<>>

(* C23: constructing a HighScoreTracker on a missing, unreadable or corrupt
   score file never fails and yields best_score = 0. *)
C23_CorruptFileGivesZero ==
    ret.op = "HighScoreTracker" /\ Corrupt(score_file) =>
        tracker.state = "ok" /\ tracker.best_score = 0

----------------------------------------------------------------------------
AtRest(b, p) == Free(b, p) /\ ~Free(b, moved(p, 0, 1))

(* C24: whenever the engine writes the current piece into the playfield, by
   lock-delay expiry or by hard drop, the piece written is at rest: it is
   placeable and the same piece one row lower is not. *)
C24_LockedOnlyAtRest ==
    [][/\ (TickEnd /\ LockDelayExpired) => AtRest(board, game.current_piece)
       /\ HardDropStep =>
             AtRest(board, moved(game.current_piece, 0, Fall(board, game.current_piece)))]_vars

Occupied(b) ==
    { c \in (0..(b.width - 1)) \X (0..(b.total_height - 1)) : b.grid[c[2] + 1][c[1] + 1] # None }

(* the lock of piece p on board b: p covers empty cells only, and what is
   left is b with the cells of p written and the full rows taken out *)
LockIntoEmpty(b, p, after) ==
    /\ Free(b, p)
    /\ CellSet(p) \cap Occupied(b) = {}
    /\ after = WithoutFullRows(Stamp(b, p))

(* C25: each lock (by lock delay or by hard drop) writes only into cells
   that were empty immediately before it, the occupied cells staying as they
   are until their row is removed by the line clear of a lock; no other step
   of the engine changes the playfield. *)
C25_LocksWriteEmptyCells ==
    [][/\ (TickEnd /\ LockDelayExpired) => LockIntoEmpty(board, game.current_piece, board')
       /\ HardDropStep =>
             LockIntoEmpty(board,
                 moved(game.current_piece, 0, Fall(board, game.current_piece)), board')
       /\ board' # board => LockStep]_vars

(* a piece has just been locked next to the cells of an earlier lock *)
C25_Witness ==
    /\ Running /\ pc = "top" /\ game.current_piece = NoPiece
    /\ Cardinality(Occupied(board)) >= 5

(* C26: in every state of a running session a current piece that is present
   is placeable (all its cells in bounds and empty), and wherever run() reads
   a key, processes an action or applies gravity and the lock delay, a
   current piece is present. *)
C26_CurrentPiecePlaceable ==
    Running =>
        /\ game.current_piece # NoPiece => Free(board, game.current_piece)
        /\ pc \in {"input", "pause_screen", "lock_delay"} => game.current_piece # NoPiece

(* keys are being read in a tick in which a hold and then a hard drop were
   processed: the next piece is there, above the piece just locked *)
C26_Witness ==
    /\ Running /\ pc = "input" /\ ~paused
    /\ game.held_kind # None /\ game.hold_used = FALSE
    /\ Occupied(board) # {}
    /\ game.current_piece # NoPiece /\ game.current_piece.y = 0

(* C27: a successful move_left, move_right or rotation (at any kick offset)
   clears the lock-delay timer; a failed one leaves the timer and its age as
   they are; and a timer that is armed starts at age zero, so that after a
   successful move or rotation a full lock delay passes before the lock. *)
C27_MoveRestartsLockDelay ==
    [][/\ \A dx \in {-1, 1} :
            MoveStep(dx) =>
                IF Free(board, moved(game.current_piece, dx, 0))
                THEN game'.lock_age = {}
                ELSE game'.lock_age = game.lock_age
       /\ \A clockwise \in BOOLEAN :
            RotateStep(clockwise) =>
                IF \E i \in 1..Len(KickOrder) :
                        Free(board, Kicked(game.current_piece, clockwise, KickOrder[i]))
                THEN game'.lock_age = {}
                ELSE game'.lock_age = game.lock_age
       /\ (game.lock_age = {} /\ game'.lock_age # {}) => game'.lock_age = {0}]_vars

(* keys are read while the piece stands against the left wall with the timer
   armed for some time: a move to the right succeeds, one to the left fails *)
C27_Witness ==
    /\ Running /\ pc = "input" /\ ~paused
    /\ \E age \in game.lock_age : age > 0 /\ age < LOCK_DELAY_SECONDS
    /\ AtRest(board, game.current_piece)
    /\ Free(board, moved(game.current_piece, 1, 0))
    /\ ~Free(board, moved(game.current_piece, -1, 0))

----------------------------------------------------------------------------
(* run() while it is not paused, with the scheduling of its loop: the loop
   `while True` (line 191) goes on from one statement to the next, so each
   of its steps that can be taken is taken; whether a key is waiting (getch,
   line 197) is up to the player. *)

InputStep == \E action \in Actions : Key(action)

PlayNext ==
    \/ LoopTop
    \/ InputStep
    \/ Gravity
    \/ TickEnd

(* the steps of the loop as far as the place in run() goes: line 192 to the
   key loop (a spawn there must be within the pieces the session may ask
   for), the key loop to line 226 when no key is waiting, and line 226 to
   the top of the loop *)
TopToInput ==
    /\ Running /\ pc = "top" /\ pc' = "input"
    /\ game.current_piece = NoPiece => draws < piece_budget

InputToLockDelay == Running /\ pc = "input" /\ ~paused /\ pc' = "lock_delay"

LockDelayToTop == Running /\ pc = "lock_delay" /\ pc' = "top"

SpecPlay ==
    /\ Init /\ [][PlayNext]_vars
    /\ WF_pc(TopToInput) /\ WF_pc(InputToLockDelay) /\ WF_pc(LockDelayToTop)

ActivePiece == Running /\ ~paused /\ game.current_piece # NoPiece

(* C28: if from some moment on no input action arrives while the ticks go
   on, every piece active in a running, unpaused session is eventually
   locked into the playfield (the current piece is gone until the next
   spawn) or the session ends. *)
C28_PieceEventuallyLocked ==
    (<>[][~InputStep]_vars) => [](ActivePiece => <>(game.current_piece = NoPiece \/ ~Running))

(* a lock by lock-delay expiry has just taken the piece off *)
C28_Witness ==
    /\ Running /\ ~paused /\ pc = "top"
    /\ game.current_piece = NoPiece /\ Occupied(board) # {}

----------------------------------------------------------------------------
(* C29: lock_piece called with a piece that has a cell outside the board
   raises, and a lock_piece call that raises leaves the grid exactly as it
   was before the call. *)
C29_FailedLockLeavesGrid ==
    /\ [](\A p \in PieceStates(board) : ~InBounds(board, p) => lock_piece(board, p).raised)
    /\ [][(BoardLock /\ ret'.raised) => board' = board]_vars

====
